---- MODULE Spec2Model ----
(***************************************************************************)
(* Model of the planar geometry core of planreview (src/planreview/esri.py) *)
(* and of the callers that feed it rings (fetch_parcel, __main__.main).     *)
(*                                                                          *)
(* Numbers.  The code computes in IEEE-754 doubles through numpy.  The      *)
(* model keeps the float values that steer the control flow (+inf, -inf,    *)
(* nan, and the sign rules of division by zero) and computes the finite     *)
(* values exactly, as normalised fractions n/d.  A number is a record       *)
(* [k, n, d] with k \in {"fin", "inf", "ninf", "nan"}.  Rounding is not     *)
(* modelled: a sum, product or quotient of finite values is the exact       *)
(* value, and the cosine and sine of an arctangent are the exact ratios.    *)
(***************************************************************************)
EXTENDS Integers, Sequences, FiniteSets, TLC

----------------------------------------------------------------------------
(* Float arithmetic: finite values exact, non-finite values as IEEE-754.    *)

Abs(i) == IF i < 0 THEN -i ELSE i

RECURSIVE GCD(_, _)
GCD(a, b) == IF b = 0 THEN a ELSE GCD(b, a % b)

NaN  == [k |-> "nan",  n |-> 0, d |-> 1]
PInf == [k |-> "inf",  n |-> 0, d |-> 1]
NInf == [k |-> "ninf", n |-> 0, d |-> 1]

\* the finite value n/d (d # 0), normalised: d > 0 and gcd(n, d) = 1
Fin(n, d) ==
    LET g == GCD(Abs(n), Abs(d))
        s == IF d < 0 THEN -1 ELSE 1
    IN  [k |-> "fin", n |-> (s * n) \div g, d |-> (s * d) \div g]

Num(i) == Fin(i, 1)
Zero == Num(0)

IsNaN(a) == a.k = "nan"
IsFin(a) == a.k = "fin"

\* -1, 0, 1
Sign(a) ==
    CASE a.k = "inf"  -> 1
      [] a.k = "ninf" -> -1
      [] a.k = "fin"  -> IF a.n > 0 THEN 1 ELSE IF a.n < 0 THEN -1 ELSE 0
      [] OTHER        -> 0

Signed(s) == IF s > 0 THEN PInf ELSE NInf

Neg(a) ==
    CASE a.k = "fin"  -> Fin(-a.n, a.d)
      [] a.k = "inf"  -> NInf
      [] a.k = "ninf" -> PInf
      [] OTHER        -> NaN

Add(a, b) ==
    CASE IsNaN(a) \/ IsNaN(b) -> NaN
      [] IsFin(a) /\ IsFin(b) -> Fin(a.n * b.d + b.n * a.d, a.d * b.d)
      [] IsFin(a)             -> b
      [] IsFin(b)             -> a
      [] a.k = b.k            -> a
      [] OTHER                -> NaN          \* inf + -inf

Sub(a, b) == Add(a, Neg(b))

Mul(a, b) ==
    CASE IsNaN(a) \/ IsNaN(b) -> NaN
      [] IsFin(a) /\ IsFin(b) -> Fin(a.n * b.n, a.d * b.d)
      [] Sign(a) * Sign(b) = 0 -> NaN         \* inf * 0
      [] OTHER                -> Signed(Sign(a) * Sign(b))

\* np.divide: x/0 is +-inf with the sign of x (the zero of a difference of
\* equal floats is +0.0), 0/0 is nan
Div(a, b) ==
    CASE IsNaN(a) \/ IsNaN(b) -> NaN
      [] IsFin(a) /\ IsFin(b) ->
            IF b.n # 0 THEN Fin(a.n * b.d, a.d * b.n)
            ELSE IF a.n = 0 THEN NaN ELSE Signed(Sign(a))
      [] IsFin(b)             -> IF b.n = 0 THEN a ELSE Signed(Sign(a) * Sign(b))
      [] IsFin(a)             -> Zero
      [] OTHER                -> NaN          \* inf / inf

\* float ==, <, >: every comparison with nan is false
Eq(a, b) == ~IsNaN(a) /\ ~IsNaN(b) /\ a = b

Lt(a, b) ==
    CASE IsNaN(a) \/ IsNaN(b) -> FALSE
      [] IsFin(a) /\ IsFin(b) -> a.n * b.d < b.n * a.d
      [] a.k = b.k            -> FALSE
      [] OTHER                -> a.k = "ninf" \/ b.k = "inf"

Gt(a, b) == Lt(b, a)

\* Python max/min of two finite floats
Max(a, b) == IF Gt(b, a) THEN b ELSE a
Min(a, b) == IF Lt(b, a) THEN b ELSE a

\* a point is a pair <<x, y>> of numbers (the code's list [x, y])
Pt(x, y) == <<Num(x), Num(y)>>

\* list == on points: element-wise float ==
PtEq(p, q) == Eq(p[1], q[1]) /\ Eq(p[2], q[2])

----------------------------------------------------------------------------
(* Line Intersection, Segment Domain Test, Point-In-Ring Test.              *)

None == <<>>

\* esri.point_slope: slope and y-intercept of the line through a and b
point_slope(a, b) ==
    LET line_of(m, icept) ==
            IF icept.k = "inf" \/ icept.k = "ninf" THEN <<m, NaN>> ELSE <<m, icept>>
        through(m) == line_of(m, Sub(a[2], Mul(m, a[1])))
    IN  through(Div(Sub(b[2], a[2]), Sub(b[1], a[1])))

\* an intersection that takes x from the first line whichever line is
\* vertical
intersection_first_x(a, b, c, d) ==
    LET at(x, m, icept) == <<x, Add(Mul(m, x), icept)>>
        solve(m1, b1, m2, b2) ==
            IF Eq(m1, m2) THEN None
            ELSE IF IsNaN(b1) THEN at(a[1], m2, b2)
            ELSE IF IsNaN(b2) THEN at(a[1], m1, b1)
            ELSE at(Div(Sub(b2, b1), Sub(m1, m2)), m1, b1)
        lines(l1, l2) == solve(l1[1], l1[2], l2[1], l2[2])
    IN  lines(point_slope(a, b), point_slope(c, d))

\* esri.intersection: the point where line a,b meets line c,d, or None
intersection(a, b, c, d) ==
    LET at(x, m, icept) == <<x, Add(Mul(m, x), icept)>>
        solve(m1, b1, m2, b2) ==
            IF Eq(m1, m2) THEN None
            ELSE IF IsNaN(b1) THEN at(a[1], m2, b2)
            ELSE IF IsNaN(b2) THEN at(c[1], m1, b1)
            ELSE at(Div(Sub(b2, b1), Sub(m1, m2)), m1, b1)
        lines(l1, l2) == solve(l1[1], l1[2], l2[1], l2[2])
    IN  lines(point_slope(a, b), point_slope(c, d))

\* esri.in_domain: intersect lies in the bounding boxes of p1,p2 and of o1,o2
in_domain(intersect, p1, p2, o1, o2) ==
    \A i \in 1..2 :
        /\ ~(Gt(intersect[i], Max(p1[i], p2[i])) \/ Lt(intersect[i], Min(p1[i], p2[i])))
        /\ ~(Gt(intersect[i], Max(o1[i], o2[i])) \/ Lt(intersect[i], Min(o1[i], o2[i])))

\* Python indexing ring[i] for -Len(ring) <= i < Len(ring)
At(ring, i) == ring[((i + Len(ring)) % Len(ring)) + 1]

\* the fixed ray origin of is_outside
origin == Pt(-1, -1)

\* lines 239-242: the intersection of the ray with edge p1,p2 is accepted
accepted(intersect, p1, p2, point) ==
    /\ intersect # None
    /\ in_domain(intersect, p1, p2, origin, point)

\* line 243: an accepted intersection lands on an end of the edge
on_vertex(intersect, p1, p2, point) ==
    /\ accepted(intersect, p1, p2, point)
    /\ (PtEq(intersect, p1) \/ PtEq(intersect, p2))

\* the edges (loop indices i) of is_outside whose intersection with the ray
\* is accepted, and those of them that land on an end of the edge
Hits(ring, point) ==
    {i \in 0..(Len(ring) - 1) :
        accepted(intersection(origin, point, At(ring, i - 1), At(ring, i)),
                 At(ring, i - 1), At(ring, i), point)}

VertexHits(ring, point) ==
    {i \in 0..(Len(ring) - 1) :
        on_vertex(intersection(origin, point, At(ring, i - 1), At(ring, i)),
                  At(ring, i - 1), At(ring, i), point)}

\* esri.is_outside: intersections - vertex_intersections/2 is even
\* (doubled here, so that the halves stay whole)
is_outside(ring, point) ==
    LET even(intersections, vertex_intersections) ==
            (2 * intersections - vertex_intersections) % 4 = 0
    IN  even(Cardinality(Hits(ring, point)), Cardinality(VertexHits(ring, point)))

----------------------------------------------------------------------------
(* Envelope and centroid.                                                   *)

\* Python min/max over the coordinate c of the points of a non-empty ring:
\* the first value is kept unless a later one compares smaller (larger)
RECURSIVE MinOf(_, _), MaxOf(_, _), SumOf(_, _)
MinOf(ring, c) ==
    IF Len(ring) = 1 THEN ring[1][c]
    ELSE Min(MinOf(SubSeq(ring, 1, Len(ring) - 1), c), ring[Len(ring)][c])
MaxOf(ring, c) ==
    IF Len(ring) = 1 THEN ring[1][c]
    ELSE Max(MaxOf(SubSeq(ring, 1, Len(ring) - 1), c), ring[Len(ring)][c])
SumOf(ring, c) ==
    IF Len(ring) = 0 THEN Zero
    ELSE Add(SumOf(SubSeq(ring, 1, Len(ring) - 1), c), ring[Len(ring)][c])

\* an envelope spanned by the first and the last point only
make_envelope_ends(ring) ==
    [xmin |-> Min(ring[1][1], ring[Len(ring)][1]), ymin |-> Min(ring[1][2], ring[Len(ring)][2]),
     xmax |-> Max(ring[1][1], ring[Len(ring)][1]), ymax |-> Max(ring[1][2], ring[Len(ring)][2])]

\* esri.make_envelope
make_envelope(ring) ==
    [xmin |-> MinOf(ring, 1), ymin |-> MinOf(ring, 2),
     xmax |-> MaxOf(ring, 1), ymax |-> MaxOf(ring, 2)]

\* esri.centroid
centroid(ring) ==
    [x |-> Div(SumOf(ring, 1), Num(Len(ring))), y |-> Div(SumOf(ring, 2), Num(Len(ring)))]

----------------------------------------------------------------------------
(* Vector/Angle primitives of buffer_ring.  An angle np.arctan(q) is kept   *)
(* as its tangent q (a number, +-inf for +-pi/2) and a flag for "+ np.pi".  *)
(* cos(arctan(n/d)) = d/h and sin(arctan(n/d)) = n/h with h*h = n*n + d*d;  *)
(* the rings of the model have edges for which h is a whole number.         *)

\* tan of the absolute tolerance atol=1e-3 of np.isclose is 1/AtolInv
AtolInv == 1000

\* the lambda angle of buffer_ring: arctan((b.y - a.y)/(b.x - a.x))
angle(a, b) == Div(Sub(b[2], a[2]), Sub(b[1], a[1]))

\* the lambda norm_angle of buffer_ring: arctan(-(b.x - a.x)/(b.y - a.y))
norm_angle(a, b) == Div(Neg(Sub(b[1], a[1])), Sub(b[2], a[2]))

Hyp(n, d) == CHOOSE h \in 0..(Abs(n) + Abs(d)) : h * h = n * n + d * d

\* <<cos, sin>> of arctan(q), negated when pi is added
Dir(q, flip) ==
    LET s == IF flip THEN -1 ELSE 1
    IN  CASE q.k = "fin"  -> <<Fin(s * q.d, Hyp(q.n, q.d)), Fin(s * q.n, Hyp(q.n, q.d))>>
          [] q.k = "inf"  -> <<Zero, Num(s)>>
          [] q.k = "ninf" -> <<Zero, Num(-s)>>
          [] OTHER        -> <<NaN, NaN>>

\* the lambda add_vec of buffer_ring: a + mag * (cos theta, sin theta)
add_vec(a, q, flip, mag) ==
    <<Add(a[1], Mul(mag, Dir(q, flip)[1])), Add(a[2], Mul(mag, Dir(q, flip)[2]))>>

\* np.isclose(arctan q1, arctan q2, atol=1e-3): the angles differ by at most
\* the tolerance iff the tangent of their difference is at most 1/AtolInv
isclose(q1, q2) ==
    LET within(num, den) ==
            Sign(den) > 0 /\ ~Gt(IF Sign(num) < 0 THEN Neg(num) ELSE num,
                                 Mul(Fin(1, AtolInv), den))
    IN  CASE IsNaN(q1) \/ IsNaN(q2) -> FALSE
          [] IsFin(q1) /\ IsFin(q2) -> within(Sub(q1, q2), Add(Num(1), Mul(q1, q2)))
          [] IsFin(q1)              -> ~Lt(Mul(Num(Sign(q2)), q1), Num(AtolInv))
          [] IsFin(q2)              -> ~Lt(Mul(Num(Sign(q1)), q2), Num(AtolInv))
          [] OTHER                  -> q1.k = q2.k

\* one single-edge offset of buffer_ring (lines 198, 200-204 for na, lines
\* 199, 205-209 for nc): vertex b pushed along the normal of edge e,b, turned
\* round by the degenerate-direction and by the outward-direction correction;
\* o is the vertex on the other side of b
edge_offset(ring, e, b, o, buffer) ==
    LET outward(n, turned) == IF ~is_outside(ring, n) THEN turned ELSE n
        corrected(norm, n, turned) ==
            outward(IF isclose(norm, angle(b, o)) /\ in_domain(n, o, b, b, n)
                    THEN turned ELSE n,
                    turned)
        along(norm) ==
            corrected(norm, add_vec(b, norm, FALSE, buffer), add_vec(b, norm, TRUE, buffer))
    IN  along(norm_angle(e, b))

\* lines 210-211: delta = nc - b, v = na + delta
add_delta(b, na, nc) ==
    <<Add(na[1], Sub(nc[1], b[1])), Add(na[2], Sub(nc[2], b[2]))>>

\* a loop body that takes ring[i] as the vertex, ring[i-1] and ring[i+1]
\* as its neighbours
loop_body_aligned(ring, i, buffer) ==
    LET at(a, b, c) ==
            add_delta(b, edge_offset(ring, a, b, c, buffer), edge_offset(ring, c, b, a, buffer))
    IN  at(At(ring, i - 1), At(ring, i), At(ring, (i + 1) % Len(ring)))

\* the body of the loop of buffer_ring for index i: the point it appends
loop_body(ring, i, buffer) ==
    LET at(a, b, c) ==
            add_delta(b, edge_offset(ring, a, b, c, buffer), edge_offset(ring, c, b, a, buffer))
    IN  at(At(ring, i - 2), At(ring, i - 1), At(ring, i))

\* list == on rings and points of finite floats
first_is_last(ring) == PtEq(ring[1], ring[Len(ring)])

\* a buffer_ring that never pops
popped_never(ring) == ring

\* line 188-189: the ring after the redundant end point is popped
popped(ring) == IF first_is_last(ring) THEN SubSeq(ring, 1, Len(ring) - 1) ELSE ring

\* lines 214-215: the buffered ring, closed
closed(buffered_ring) ==
    IF ~first_is_last(buffered_ring)
    THEN Append(buffered_ring, buffered_ring[1])
    ELSE buffered_ring

\* lines 193-212: the offsets the loop appends for ring r
offsets(r, buffer) == [i \in 1..Len(r) |-> loop_body(r, i - 1, buffer)]

\* esri.buffer_ring: the list it returns
buffer_ring(ring, buffer) == closed(offsets(popped(ring), buffer))

----------------------------------------------------------------------------
(* Inputs: rings on a small grid, none containing or touching the origin.   *)

MaxSide   == 2      \* rectangles have sides 1..MaxSide
MaxShift  == 1      \* rings are placed at (s, s), s in 0..MaxShift
MaxHalves == 5      \* buffer distances are 1/2, 2/2, ... MaxHalves/2

Rect(x0, y0, w, h) == <<Pt(x0, y0), Pt(x0, y0 + h), Pt(x0 + w, y0 + h), Pt(x0 + w, y0)>>

\* rings whose edges have whole or dyadic lengths: a 3-4-5 triangle, a
\* parallelogram, a tilted square with sides of length 5, and an isosceles
\* triangle with legs along (3, 4) and (3, -4)
Triangle(x0, y0) == <<Pt(x0, y0), Pt(x0 + 4, y0), Pt(x0, y0 + 3)>>
Parallelogram(x0, y0) ==
    <<Pt(x0, y0), Pt(x0 + 4, y0), Pt(x0 + 7, y0 + 4), Pt(x0 + 3, y0 + 4)>>
Tilted(x0, y0) == <<Pt(x0 + 4, y0), Pt(x0 + 7, y0 + 4), Pt(x0 + 3, y0 + 7), Pt(x0, y0 + 3)>>

Isosceles(x0, y0) ==
    <<<<Num(x0), Fin(2 * y0 + 3, 2)>>,
      <<Fin(8 * x0 + 9, 8), Num(y0)>>,
      <<Fin(8 * x0 + 9, 8), Num(y0 + 3)>>>>

\* a ring that is not convex
LShape(x0, y0) ==
    <<Pt(x0, y0), Pt(x0 + 4, y0), Pt(x0 + 4, y0 + 2), Pt(x0 + 2, y0 + 2),
      Pt(x0 + 2, y0 + 4), Pt(x0, y0 + 4)>>

Rot(r, k) == [j \in 1..Len(r) |-> r[((j - 1 + k) % Len(r)) + 1]]
Rev(r) == [j \in 1..Len(r) |-> r[Len(r) + 1 - j]]

\* every starting vertex and both windings of a ring
Variants(r) == {Rot(r, k) : k \in 0..(Len(r) - 1)} \cup {Rev(Rot(r, k)) : k \in 0..(Len(r) - 1)}

BaseRects == {Rect(s, s, w, h) : <<s, w, h>> \in (0..MaxShift) \X (1..MaxSide) \X (1..MaxSide)}

BaseSlanted == UNION {{Triangle(s, s), Parallelogram(s, s), Tilted(s, s), Isosceles(s, s)} :
                        s \in 0..MaxShift}

BaseLShapes == {LShape(s, s) : s \in 0..MaxShift}

Rects == UNION {Variants(r) : r \in BaseRects}
Slanted == UNION {Variants(r) : r \in BaseSlanted}
LShapes == UNION {Variants(r) : r \in BaseLShapes}

\* the two representations of a ring: with and without the first point
\* repeated as the last
WithRepeat(r) == Append(r, r[1])
Rings == Rects \cup Slanted \cup LShapes
RingInputs == Rings \cup {WithRepeat(r) : r \in Rings}

Buffers == {Fin(h, 2) : h \in 1..MaxHalves}

----------------------------------------------------------------------------
(* The program state.  Each specification below drives one caller of the    *)
(* geometry core and leaves the variables of the other callers at rest.     *)

VARIABLES
    pc,        \* where the caller is: before ("call") or after ("done") a call
    in_ring,   \* the ring as the caller built it, before any call
    ring,      \* the caller's list object, which a callee receives by reference
    buffer,    \* the distance given to buffer_ring
    result,    \* the list a call returned (buffer_ring, intersection)
    point,     \* the query point given to is_outside
    outside,   \* what is_outside returned
    line,      \* the four points a, b, c, d given to intersection
    thr,       \* per thread inside buffer_ring: its line and its locals
    response,  \* the parcel server's answer: status code and ring
    parcel,    \* what fetch_parcel returned
    ran        \* the geometry operations that have processed the ring

vars == <<pc, in_ring, ring, buffer, result, point, outside, line, thr,
          response, parcel, ran>>

NoQuery   == point = origin /\ outside = FALSE
NoLine    == line = <<>>
NoThreads == thr = <<>>
NoServer  == response = <<>> /\ parcel = None /\ ran = {}

----------------------------------------------------------------------------
(* Spec: a caller holding a ring calls buffer_ring once (tests test_buffer, *)
(* test_buffer_realistic).                                                  *)

Init ==
    /\ pc = "call"
    /\ in_ring \in RingInputs
    /\ ring = in_ring
    /\ buffer \in Buffers
    /\ result = <<>>
    /\ NoQuery /\ NoLine /\ NoThreads /\ NoServer

\* result_ring = esri.buffer_ring(ring, buffer): the callee pops the
\* caller's list and returns a new list
CallBufferRing ==
    /\ pc = "call"
    /\ ring' = popped(ring)
    /\ result' = buffer_ring(ring, buffer)
    /\ pc' = "done"
    /\ UNCHANGED <<in_ring, buffer, point, outside, line, thr, response, parcel, ran>>

Next == CallBufferRing

Spec == Init /\ [][Next]_vars

----------------------------------------------------------------------------
(* SpecOutside: a caller asks is_outside about a point (tests test_tracer,  *)
(* test_trace_origin).                                                      *)

MaxCoord == 5       \* query points have coordinates -2, -1.5, ... MaxCoord

\* a triangle with one edge on the line y = x, which runs through the origin
\* of the ray
Diagonal(x0) == <<Pt(x0, x0), Pt(x0 + 2, x0 + 2), Pt(x0 + 2, x0)>>

BaseQueryRings ==
    BaseRects \cup BaseSlanted \cup {LShape(x0, y0) : <<x0, y0>> \in (0..MaxShift) \X (0..MaxShift)}
        \cup {Diagonal(x0) : x0 \in 0..MaxShift}
QueryRings == BaseQueryRings \cup {Rev(r) : r \in BaseQueryRings}

\* query points on the half-unit grid
QueryPoints ==
    {<<Fin(x, 2), Fin(y, 2)>> : <<x, y>> \in (-4..(2 * MaxCoord)) \X (-4..(2 * MaxCoord))}

InitOutside ==
    /\ pc = "call"
    /\ in_ring \in QueryRings
    /\ ring = in_ring
    /\ point \in QueryPoints
    /\ outside = FALSE
    /\ buffer = Zero /\ result = <<>>
    /\ NoLine /\ NoThreads /\ NoServer

CallIsOutside ==
    /\ pc = "call"
    /\ outside' = is_outside(ring, point)
    /\ pc' = "done"
    /\ UNCHANGED <<in_ring, ring, buffer, result, point, line, thr, response, parcel, ran>>

SpecOutside == InitOutside /\ [][CallIsOutside]_vars

\* SpecOutsideClosed: the same caller, holding the ring in either of its
\* two representations
InitOutsideClosed ==
    /\ pc = "call"
    /\ in_ring \in QueryRings \cup {WithRepeat(r) : r \in QueryRings}
    /\ ring = in_ring
    /\ point \in QueryPoints
    /\ outside = FALSE
    /\ buffer = Zero /\ result = <<>>
    /\ NoLine /\ NoThreads /\ NoServer

SpecOutsideClosed == InitOutsideClosed /\ [][CallIsOutside]_vars

----------------------------------------------------------------------------
(* SpecIntersection: a caller asks for the intersection of two lines.       *)

MaxLine == 2        \* the points of the lines have coordinates 0..MaxLine

LinePoints == {Pt(x, y) : <<x, y>> \in (0..MaxLine) \X (0..MaxLine)}

InitIntersection ==
    /\ pc = "call"
    /\ line \in LinePoints \X LinePoints \X LinePoints \X LinePoints
    /\ result = <<>>
    /\ in_ring = <<>> /\ ring = <<>> /\ buffer = Zero
    /\ NoQuery /\ NoThreads /\ NoServer

CallIntersection ==
    /\ pc = "call"
    /\ result' = intersection(line[1], line[2], line[3], line[4])
    /\ pc' = "done"
    /\ UNCHANGED <<in_ring, ring, buffer, point, outside, line, thr, response, parcel, ran>>

SpecIntersection == InitIntersection /\ [][CallIntersection]_vars

----------------------------------------------------------------------------
(* SpecThreads: two threads call buffer_ring on the same list object.  A    *)
(* thread may be preempted between any two statements; one pass of the loop *)
(* body is taken as one step.  thr[t].pc is the line the thread is at.      *)

Threads == {1, 2}

\* rings that keep edges of whole length when their last vertex is removed:
\* 3-by-4 rectangles and 3-4-5 triangles, in both representations
BaseThreadRings ==
    UNION {{Rect(x0, y0, 3, 4), Rect(x0, y0, 4, 3), Triangle(x0, y0)} :
           <<x0, y0>> \in (0..MaxShift) \X (0..MaxShift)}
OpenThreadRings == BaseThreadRings \cup {Rev(r) : r \in BaseThreadRings}
ThreadRings == OpenThreadRings \cup {WithRepeat(r) : r \in OpenThreadRings}

InitThreads ==
    /\ pc = "call"
    /\ in_ring \in ThreadRings
    /\ ring = in_ring
    /\ buffer \in Buffers
    /\ result = <<>>
    /\ thr = [t \in Threads |-> [pc |-> "l188", i |-> 0, n |-> 0, buffered_ring |-> <<>>]]
    /\ NoQuery /\ NoLine /\ NoServer

Rest == <<pc, in_ring, buffer, result, point, outside, line, response, parcel, ran>>

\* line 188: if ring[0] == ring[-1]
TestEnds(t) ==
    /\ thr[t].pc = "l188"
    /\ thr' = [thr EXCEPT ![t].pc = IF first_is_last(ring) THEN "l189" ELSE "l193"]
    /\ UNCHANGED <<ring, Rest>>

\* line 189: ring.pop()
Pop(t) ==
    /\ thr[t].pc = "l189"
    /\ ring' = SubSeq(ring, 1, Len(ring) - 1)
    /\ thr' = [thr EXCEPT ![t].pc = "l193"]
    /\ UNCHANGED Rest

\* lines 193-194: buffered_ring = []; range(len(ring)) is evaluated once
EnterLoop(t) ==
    /\ thr[t].pc = "l193"
    /\ thr' = [thr EXCEPT ![t].pc = "l195", ![t].i = 0, ![t].n = Len(ring),
                          ![t].buffered_ring = <<>>]
    /\ UNCHANGED <<ring, Rest>>

\* lines 195-212: one pass of the loop; ring[i-2], ring[i-1] and ring[i]
\* raise IndexError when the list has become too short
LoopPass(t) ==
    /\ thr[t].pc = "l195"
    /\ thr[t].i < thr[t].n
    /\ IF thr[t].i < Len(ring) /\ thr[t].i - 2 >= -Len(ring)
       THEN thr' = [thr EXCEPT ![t].i = @ + 1,
                               ![t].buffered_ring =
                                   Append(@, loop_body(ring, thr[t].i, buffer))]
       ELSE thr' = [thr EXCEPT ![t].pc = "raised"]
    /\ UNCHANGED <<ring, Rest>>

\* lines 214-216: close the buffered ring and return it
Return(t) ==
    /\ thr[t].pc = "l195"
    /\ thr[t].i = thr[t].n
    /\ thr' = [thr EXCEPT ![t].pc = "done", ![t].buffered_ring = closed(@)]
    /\ UNCHANGED <<ring, Rest>>

NextThreads ==
    \E t \in Threads : TestEnds(t) \/ Pop(t) \/ EnterLoop(t) \/ LoopPass(t) \/ Return(t)

SpecThreads == InitThreads /\ [][NextThreads]_vars

----------------------------------------------------------------------------
(* SpecMain: __main__.main fetches a parcel and buffers its ring.           *)

\* the buffer distance main passes to buffer_ring
MainBuffer == 100

\* rings a server may answer with: well-formed ones in both representations
\* and rings with fewer than three distinct vertices
Degenerate ==
    UNION {{SubSeq(r, 1, 0), SubSeq(r, 1, 1), SubSeq(r, 1, 2), <<r[1], r[1]>>,
            <<r[1], r[2], r[1]>>, <<r[1], r[1], r[1]>>, <<r[1], r[2], r[2], r[1]>>} :
           r \in BaseRects}

ServerRings == BaseRects \cup BaseSlanted \cup {WithRepeat(r) : r \in BaseRects \cup BaseSlanted}
                   \cup Degenerate

\* a response carries a status code and the features' first ring, if any
Responses ==
    {[status_code |-> c, features |-> f] :
        <<c, f>> \in {200, 404} \X ({<<>>} \cup {<<r>> : r \in ServerRings})}

InitMain ==
    /\ pc = "l19"
    /\ response \in Responses
    /\ parcel = None
    /\ ran = {}
    /\ in_ring = <<>> /\ ring = <<>>
    /\ buffer = Num(MainBuffer)
    /\ result = <<>>
    /\ NoQuery /\ NoLine /\ NoThreads

\* the ring fetch_parcel accepts: status 200, a feature, len(ring) >= 3
Accepted ==
    /\ response.status_code = 200
    /\ response.features # <<>>
    /\ ~(Len(response.features[1]) < 3)

\* main line 19: parcel = esri.fetch_parcel(params).  Any failure inside
\* the try block is logged and None is returned.
FetchParcel ==
    /\ pc = "l19"
    /\ IF Accepted
       THEN /\ in_ring' = response.features[1]
            /\ ring' = response.features[1]
            /\ parcel' = [location |-> centroid(response.features[1]),
                          envelope |-> make_envelope(response.features[1])]
            /\ ran' = ran \cup {"centroid", "make_envelope"}
       ELSE /\ parcel' = None
            /\ UNCHANGED <<in_ring, ring, ran>>
    /\ pc' = "l20"
    /\ UNCHANGED <<buffer, result, point, outside, line, thr, response>>

\* main lines 20-21: ring = parcel.ring raises AttributeError on None;
\* buffer_ring = esri.buffer_ring(ring, 100)
MainBufferRing ==
    /\ pc = "l20"
    /\ IF parcel = None
       THEN /\ pc' = "raised"
            /\ UNCHANGED <<ring, result, ran>>
       ELSE /\ ring' = popped(ring)
            /\ result' = buffer_ring(ring, buffer)
            /\ ran' = ran \cup {"buffer_ring", "is_outside"}
            /\ pc' = "l22"
    /\ UNCHANGED <<in_ring, buffer, point, outside, line, thr, response, parcel>>

\* main lines 22-47: the flood, zoning and street queries and the letter
\* read ring and buffer_ring and change neither
MainQueries ==
    /\ pc = "l22"
    /\ pc' = "done"
    /\ UNCHANGED <<in_ring, ring, buffer, result, point, outside, line, thr,
                   response, parcel, ran>>

NextMain == FetchParcel \/ MainBufferRing \/ MainQueries

SpecMain == InitMain /\ [][NextMain]_vars

----------------------------------------------------------------------------
(* SpecEnvelope: a caller holding a non-empty ring takes its centroid and   *)
(* its envelope, as fetch_parcel does at lines 157 and 161.                 *)

\* rings of every length from 1 on, in both representations
EnvelopeRings == RingInputs \cup (Degenerate \ {<<>>})

InitEnvelope ==
    /\ pc = "l157"
    /\ in_ring \in EnvelopeRings
    /\ ring = in_ring
    /\ result = <<>>
    /\ buffer = Zero
    /\ NoQuery /\ NoLine /\ NoThreads /\ NoServer

\* line 157: center = centroid(ring)
CallCentroid ==
    /\ pc = "l157"
    /\ result' = [center |-> centroid(ring)]
    /\ pc' = "l161"
    /\ UNCHANGED <<in_ring, ring, buffer, point, outside, line, thr, response, parcel, ran>>

\* line 161: envelope = make_envelope(ring)
CallMakeEnvelope ==
    /\ pc = "l161"
    /\ result' = [center |-> result.center, envelope |-> make_envelope(ring)]
    /\ pc' = "done"
    /\ UNCHANGED <<in_ring, ring, buffer, point, outside, line, thr, response, parcel, ran>>

NextEnvelope == CallCentroid \/ CallMakeEnvelope

SpecEnvelope == InitEnvelope /\ [][NextEnvelope]_vars

----------------------------------------------------------------------------
(* SpecTrans: a caller queries the street plan for a buffered ring (test    *)
(* test_trans_null, main line 24).  The server's answer is the input.       *)

MaxFeatures == 2    \* the server reports 0..MaxFeatures street features

\* a Python list, kept apart from None
PyList(s) == [list |-> s]

\* str.lower() on the classifications the server reports
Lower(s) ==
    CASE s = "Minor Arterial" -> "minor arterial"
      [] s = "COLLECTOR"      -> "collector"
      [] OTHER                -> s

\* the dict classify of trans, with the default 50 of classify.get
classify(c) ==
    CASE c = "minor residential"  -> 45
      [] c = "residential"        -> 50
      [] c = "collector"          -> 60
      [] c = "commercial"         -> 60
      [] c = "minor arterial"     -> 90
      [] c = "principal arterial" -> 110
      [] OTHER                    -> 50

state_highway ==
    {"INTERSTATE 30", "INTERSTATE 430", "INTERSTATE 440", "INTERSTATE 530",
     "INTERSTATE 630", "CANTRELL RD", "BROADWAY ST", "W ROOSEVELT RD",
     "S UNIVERSITY AVE", "N UNIVERSITY AVE", "BASELINE RD", "S ARCH ST",
     "STAGECOACH RD", "COLONEL GLENN RD"}

\* lines 372-379: the Street made from one feature
Street(f) ==
    [name           |-> f.attributes.MapName,
     classification |-> Lower(f.attributes.SCADD_Type),
     row            |-> classify(Lower(f.attributes.SCADD_Type)),
     alt            |-> "AltDes" \in DOMAIN f.attributes,
     state          |-> f.attributes.MapName \in state_highway]

\* esri.server_ok: the JSON of the response, or None unless the status is 200
server_ok(r) == IF r.status_code # 200 THEN None ELSE r.json

\* esri.trans, from the answer to its request on: an empty or missing
\* list of features gives the empty list
trans(resp) ==
    LET streets(data) ==
            IF data = None \/ DOMAIN data = {} THEN PyList(<<>>)
            ELSE IF "features" \notin DOMAIN data \/ data.features = <<>> THEN PyList(<<>>)
            ELSE PyList([j \in 1..Len(data.features) |-> Street(data.features[j])])
    IN  streets(server_ok(resp))

\* the street features a server may report: with and without the AltDes
\* attribute
Features ==
    {[attributes |-> [MapName |-> n, SCADD_Type |-> t]] :
        <<n, t>> \in {"BROADWAY ST", "W 2ND ST"} \X {"Minor Arterial", "COLLECTOR", "local"}}
    \cup
    {[attributes |-> [MapName |-> n, SCADD_Type |-> t, AltDes |-> "Y"]] :
        <<n, t>> \in {"BROADWAY ST", "W 2ND ST"} \X {"Minor Arterial", "COLLECTOR", "local"}}

RECURSIVE FeatureLists(_)
FeatureLists(n) ==
    IF n = 0 THEN {<<>>}
    ELSE FeatureLists(n - 1)
            \cup {Append(fs, f) : <<fs, f>> \in {l \in FeatureLists(n - 1) : Len(l) = n - 1} \X Features}

\* the JSON bodies: the empty object, an error object without features, and
\* objects with a list of features
Bodies == {<<>>, [error |-> 400]} \cup {[features |-> fs] : fs \in FeatureLists(MaxFeatures)}

TransResponses ==
    {[status_code |-> c, json |-> b] : <<c, b>> \in {200, 404} \X Bodies}

InitTrans ==
    /\ pc = "call"
    /\ response \in TransResponses
    /\ in_ring \in {buffer_ring(WithRepeat(r), Num(1)) : r \in {Rect(0, 0, 1, 1), Rect(1, 1, 2, 1)}}
    /\ ring = in_ring
    /\ result = <<>>
    /\ buffer = Zero
    /\ parcel = None /\ ran = {}
    /\ NoQuery /\ NoLine /\ NoThreads

\* streets = esri.trans(buffered_office)
CallTrans ==
    /\ pc = "call"
    /\ result' = trans(response)
    /\ pc' = "done"
    /\ UNCHANGED <<in_ring, ring, buffer, point, outside, line, thr, response, parcel, ran>>

SpecTrans == InitTrans /\ [][CallTrans]_vars

----------------------------------------------------------------------------
(* Geometry the claims are stated in, independent of the code.              *)

\* twice the signed area of the triangle a, b, p
Cross(a, b, p) ==
    Sub(Mul(Sub(b[1], a[1]), Sub(p[2], a[2])), Mul(Sub(b[2], a[2]), Sub(p[1], a[1])))

\* the sides on which p lies of the edges of r
Sides(r, p) == {Sign(Cross(At(r, j - 1), At(r, j), p)) : j \in 0..(Len(r) - 1)}

\* r (without a repeated end point) turns the same way at every vertex
IsConvexRing(r) ==
    \/ \A j \in 0..(Len(r) - 1) : Sign(Cross(At(r, j - 2), At(r, j - 1), At(r, j))) = 1
    \/ \A j \in 0..(Len(r) - 1) : Sign(Cross(At(r, j - 2), At(r, j - 1), At(r, j))) = -1

\* four corners, consecutive ones sharing x and y in turn
IsRectangle(r) ==
    /\ Len(r) = 4
    /\ \/ \A j \in 0..3 : At(r, j - 1)[1 + (j % 2)] = At(r, j)[1 + (j % 2)]
       \/ \A j \in 0..3 : At(r, j - 1)[2 - (j % 2)] = At(r, j)[2 - (j % 2)]
    /\ IsConvexRing(r)

Points(r) == {r[j] : j \in 1..Len(r)}

\* the corner p of rectangle r moved by d away from the rectangle in x and y
Grown(r, p, d) ==
    <<IF \E q \in Points(r) : Lt(p[1], q[1]) THEN Sub(p[1], d) ELSE Add(p[1], d),
      IF \E q \in Points(r) : Lt(p[2], q[2]) THEN Sub(p[2], d) ELSE Add(p[2], d)>>

\* the offset of the vertex V with predecessor P and successor S: the sum
\* of its two single-edge offsets, taken from V
Offset(r, P, V, S, d) ==
    LET sum(nA, nC) == <<Sub(Add(nA[1], nC[1]), V[1]), Sub(Add(nA[2], nC[2]), V[2])>>
    IN  sum(edge_offset(r, P, V, S, d), edge_offset(r, S, V, P, d))

\* the offset of the vertex at index k of r, from its predecessor and its
\* successor modulo the ring length
OffsetOfVertex(r, k, d) == Offset(r, At(r, k - 1), At(r, k), At(r, (k + 1) % Len(r)), d)

\* the number of vertices of the given ring once a repeated end is dropped
Vertices == Len(in_ring) - (IF in_ring[1] = in_ring[Len(in_ring)] THEN 1 ELSE 0)

\* the given ring in its other representation
OtherRepresentation ==
    IF in_ring[1] = in_ring[Len(in_ring)]
    THEN SubSeq(in_ring, 1, Len(in_ring) - 1)
    ELSE Append(in_ring, in_ring[1])

----------------------------------------------------------------------------
(* Claims about a lone call of buffer_ring.                                 *)

\* C1: every point of buffer_ring(R, d), R convex, is classified as outside
\* R by is_outside
C1_BufferedOutside ==
    (pc = "done" /\ IsConvexRing(ring)) =>
        \A k \in 1..Len(result) : is_outside(ring, result[k])

\* C3: buffering a rectangle returns the corners of the rectangle grown by
\* d on every side
C3_RectangleGrown ==
    (pc = "done" /\ IsRectangle(ring)) =>
        Points(result) = {Grown(ring, p, buffer) : p \in Points(ring)}

\* C4: the output has one point per vertex and one repeat of the first
\* point: n + 1 points, the last equal to the first
C4_ClosedCount ==
    pc = "done" =>
        /\ Len(result) = Vertices + 1
        /\ result[Len(result)] = result[1]

\* C5: the caller's ring holds the same points after the call as before
C5_NoSideEffect == pc = "done" => ring = in_ring

\* C9: the ring with and the ring without the repeated end point give the
\* same output
C9_SameForBothRepresentations ==
    pc = "done" => result = buffer_ring(OtherRepresentation, buffer)

C9_Witness ==
    /\ pc = "done"
    /\ in_ring[1] = in_ring[Len(in_ring)]
    /\ Len(result) = Len(in_ring)
    /\ ring # in_ring

\* C10 as claimed: the output point at index k is the offset of the input
\* vertex at index k
C10_IndexAligned ==
    pc = "done" =>
        \A k \in 0..(Vertices - 1) : result[k + 1] = OffsetOfVertex(ring, k, buffer)

\* C10 amended: the output point at index k is the offset of the input
\* vertex at index k - 1 (modulo the ring length): the output follows the
\* cyclic order of the input, starting from its last vertex
C10_RotatedByOne ==
    pc = "done" =>
        \A k \in 0..(Vertices - 1) :
            result[k + 1] = OffsetOfVertex(ring, (k + Vertices - 1) % Vertices, buffer)

C10_Witness ==
    /\ pc = "done"
    /\ Len(result) = 5
    /\ result[1] = OffsetOfVertex(ring, 3, buffer)
    /\ result[1] # OffsetOfVertex(ring, 0, buffer)

----------------------------------------------------------------------------
(* Claims about is_outside and intersection.                                *)

\* p lies on an edge of r
OnBoundary(r, p) ==
    \E j \in 0..(Len(r) - 1) :
        /\ Sign(Cross(At(r, j - 1), At(r, j), p)) = 0
        /\ \A c \in 1..2 :
              /\ ~Lt(p[c], Min(At(r, j - 1)[c], At(r, j)[c]))
              /\ ~Gt(p[c], Max(At(r, j - 1)[c], At(r, j)[c]))

\* the edge lo,hi (lo the lower end) is crossed by a horizontal ray from p
\* towards +x; an edge owns its lower end, not its upper end
Crossed(lo, hi, p) ==
    /\ ~Gt(lo[2], p[2])
    /\ Gt(hi[2], p[2])
    /\ Sign(Cross(lo, hi, p)) > 0

CrossedEdges(r, p) ==
    {j \in 0..(Len(r) - 1) :
        IF Lt(At(r, j - 1)[2], At(r, j)[2])
        THEN Crossed(At(r, j - 1), At(r, j), p)
        ELSE Crossed(At(r, j), At(r, j - 1), p)}

\* p lies in the interior of the simple ring r
GeomInside(r, p) == Cardinality(CrossedEdges(r, p)) % 2 = 1

\* C2: for a point off the boundary, is_outside is true exactly when the
\* point lies outside the ring
C2_ClassifiesCorrectly ==
    (pc = "done" /\ ~OnBoundary(ring, point)) => (outside <=> ~GeomInside(ring, point))

\* the lines a,b and c,d, each through two distinct points, are parallel
Parallel(a, b, c, d) ==
    /\ a # b
    /\ c # d
    /\ Sub(Mul(Sub(b[1], a[1]), Sub(d[2], c[2])), Mul(Sub(b[2], a[2]), Sub(d[1], c[1]))) = Zero

\* C7: intersection returns None for parallel lines, vertical ones
\* included, in whatever order the points of a pair are given
C7_ParallelIsNone ==
    (pc = "done" /\ Parallel(line[1], line[2], line[3], line[4])) => result = None

----------------------------------------------------------------------------
(* Claims about concurrent calls and about the callers.                     *)

\* C6: under every interleaving each of two concurrent calls returns what
\* a lone call returns, and the shared ring loses no vertex but the
\* repeated end point
C6_ConcurrentSafe ==
    /\ \A t \in Threads :
          /\ thr[t].pc # "raised"
          /\ thr[t].pc = "done" => thr[t].buffered_ring = buffer_ring(in_ring, buffer)
    /\ Len(ring) >= Vertices

\* C8: a ring with fewer than 3 distinct vertices is rejected (no parcel)
\* and no geometry operation runs on it
C8_RejectedBeforeGeometry ==
    (/\ pc # "l19"
     /\ response.status_code = 200
     /\ response.features # <<>>
     /\ Cardinality(Points(response.features[1])) < 3)
        => (parcel = None /\ ran = {})

----------------------------------------------------------------------------
(* Claims about make_envelope and centroid.                                 *)

\* the sum of the coordinate c over a set of points
RECURSIVE SumOver(_, _)
SumOver(ps, c) ==
    IF ps = {} THEN Zero
    ELSE LET p == CHOOSE q \in ps : TRUE
         IN  Add(p[c], SumOver(ps \ {p}, c))

\* the arithmetic mean of the vertices of r, each one counted once
VertexMean(r) ==
    [x |-> Div(SumOver(Points(r), 1), Num(Cardinality(Points(r)))),
     y |-> Div(SumOver(Points(r), 2), Num(Cardinality(Points(r))))]

\* C11: every point of the ring lies in the closed envelope and each of the
\* four bounds is the coordinate of some point of the ring
C11_EnvelopeIsMinMax ==
    pc = "done" =>
        /\ \A p \in Points(ring) :
              /\ ~Lt(p[1], result.envelope.xmin) /\ ~Gt(p[1], result.envelope.xmax)
              /\ ~Lt(p[2], result.envelope.ymin) /\ ~Gt(p[2], result.envelope.ymax)
        /\ \E p \in Points(ring) : p[1] = result.envelope.xmin
        /\ \E p \in Points(ring) : p[2] = result.envelope.ymin
        /\ \E p \in Points(ring) : p[1] = result.envelope.xmax
        /\ \E p \in Points(ring) : p[2] = result.envelope.ymax

\* a ring of four or more points whose least and greatest x are at neither
\* end of the sequence
C11_Witness ==
    /\ pc = "done"
    /\ Len(ring) >= 4
    /\ Lt(result.envelope.xmin, Min(ring[1][1], ring[Len(ring)][1]))
    /\ Gt(result.envelope.xmax, Max(ring[1][1], ring[Len(ring)][1]))

\* C12: the centroid is the mean of the vertices, each counted once, with
\* or without the first point repeated as the last
C12_CentroidIsVertexMean ==
    (pc \in {"l161", "done"} /\ Cardinality(Points(in_ring)) >= 3)
        => result.center = VertexMean(in_ring)

----------------------------------------------------------------------------
(* Claims about trans.                                                      *)

\* the server answered successfully and reported no street features
NoStreets ==
    /\ response.status_code = 200
    /\ "features" \in DOMAIN response.json
    /\ response.json.features = <<>>

\* C13: trans returns None when the server answers successfully and
\* reports no street features
C13_NoStreetsIsNone == (pc = "done" /\ NoStreets) => result = None

----------------------------------------------------------------------------
(* Claims about the single-edge offsets of buffer_ring.                     *)

\* the single-edge offsets nA and nC that enter the vector addition for
\* the vertex V of r with predecessor P and successor S
SingleOffsets(r, P, V, S, d) == {edge_offset(r, P, V, S, d), edge_offset(r, S, V, P, d)}

\* C14: for every vertex, both single-edge offsets, after the two
\* corrections, are classified as outside the ring by is_outside
C14_SingleOffsetsOutside ==
    pc = "done" =>
        \A k \in 0..(Len(ring) - 1) :
            \A n \in SingleOffsets(ring, At(ring, k - 1), At(ring, k),
                                   At(ring, (k + 1) % Len(ring)), buffer) :
                is_outside(ring, n)

----------------------------------------------------------------------------
(* Claims about the counting of is_outside.                                 *)

\* the ray from the origin to p passes through the point v
OnRay(p, v) ==
    /\ Sign(Cross(origin, p, v)) = 0
    /\ \A c \in 1..2 :
          /\ ~Lt(v[c], Min(origin[c], p[c]))
          /\ ~Gt(v[c], Max(origin[c], p[c]))

\* the edges of r whose accepted intersection with the ray to p is v
HitsAt(r, p, v) ==
    {i \in Hits(r, p) : PtEq(intersection(origin, p, At(r, i - 1), At(r, i)), v)}

\* no repeated closing point, consecutive vertices distinct, the origin and
\* the query point off the boundary
CountingCase(r, p) ==
    /\ \A j \in 0..(Len(r) - 1) : At(r, j - 1) # At(r, j)
    /\ ~OnBoundary(r, origin)
    /\ ~OnBoundary(r, p)

\* C15: a vertex on the ray is hit on exactly two edges, so the vertex
\* count is even, the total is whole, and is_outside is true exactly when
\* the total is even
C15_VertexHitTwice ==
    (pc = "done" /\ CountingCase(ring, point)) =>
        /\ \A v \in Points(ring) :
              OnRay(point, v) => Cardinality(HitsAt(ring, point, v)) = 2
        /\ Cardinality(VertexHits(ring, point)) % 2 = 0
        /\ outside <=>
              ((2 * Cardinality(Hits(ring, point)) - Cardinality(VertexHits(ring, point))) \div 2)
                  % 2 = 0

\* C16: is_outside gives the same answer for the ring with its first point
\* repeated as its last and for the ring without the repeat
C16_SameForBothRepresentations ==
    pc = "done" => outside = is_outside(OtherRepresentation, point)

----------------------------------------------------------------------------
(* Claims about intersection of lines that are not parallel.                *)

\* the finite point p lies on the infinite line through a and b
OnLine(a, b, p) == IsFin(p[1]) /\ IsFin(p[2]) /\ Cross(a, b, p) = Zero

Vertical(a, b) == a[1] = b[1]

\* two lines, each through two distinct points, that are not parallel
NonParallel(a, b, c, d) ==
    /\ a # b
    /\ c # d
    /\ Sub(Mul(Sub(b[1], a[1]), Sub(d[2], c[2])), Mul(Sub(b[2], a[2]), Sub(d[1], c[1]))) # Zero

\* C17: for lines that are not parallel the returned point lies on both
\* lines; when exactly one line is vertical the returned x is that line's x
\* (and, being on the other line, y is that line's value there)
C17_OnBothLines ==
    (pc = "done" /\ NonParallel(line[1], line[2], line[3], line[4])) =>
        /\ result # None
        /\ OnLine(line[1], line[2], result)
        /\ OnLine(line[3], line[4], result)
        /\ (Vertical(line[1], line[2]) /\ ~Vertical(line[3], line[4]))
              => result[1] = line[1][1]
        /\ (Vertical(line[3], line[4]) /\ ~Vertical(line[1], line[2]))
              => result[1] = line[3][1]

\* the second line alone is vertical, at another x than the first point
C17_Witness ==
    /\ pc = "done"
    /\ Vertical(line[3], line[4]) /\ line[3] # line[4]
    /\ ~Vertical(line[1], line[2])
    /\ line[1][1] # line[3][1]
    /\ result # None
    /\ result[1] = line[3][1]
    /\ OnLine(line[1], line[2], result)

====
